---- MODULE Spec2Model ----
(***************************************************************************)
(* Model of the ereader backend's two cores:                               *)
(*   - the sync merge engine  (crates/sync_engine/src/merge.rs) over the   *)
(*     reading-state, annotation and device stores (crates/db_layer);      *)
(*   - the background task scheduler (crates/worker_daemon/src/            *)
(*     scheduler.rs) over the task store (db_layer/src/queries/tasks.rs).  *)
(* Timestamps are natural numbers; 0 stands for NULL / the epoch.          *)
(***************************************************************************)
EXTENDS Integers, Sequences, FiniteSets, TLC

(***************************************************************************)
(* Bounds of the model                                                     *)
(***************************************************************************)
MaxTime == 3
MaxTombTime == 6
MaxLongTime == 4
MaxTasks == 2
Capacity == 1

Users == {"u1", "u2"}
Devices == {"dA", "dB", "dC"}
Books == {"b1"}
AnnIds == {"a1"}
Locations == {"L1", "L2"}
Contents == {"x"}
Calls == {1, 2}
ClientTimes == 1..(MaxTime - 1)

\* devices.user_id: the user a device was registered for; the user_id a
\* request of the device is processed for
Owner(d) == IF d = "dC" THEN "u2" ELSE "u1"
DevicesOf(u) == {d \in Devices : Owner(d) = u}

VARIABLES
    now,           \* the clock read by Utc::now() and by the store's NOW()
    rs,            \* table reading_states, keyed by <<user_id, book_id>>
    an,            \* table annotations, keyed by id
    last_sync_at,  \* column devices.last_sync_at
    call,          \* the process_sync invocations in flight
    horizon,       \* the clock value at which the exploration stops
    best           \* history: per key, the greatest updated_at among the reading-state
                   \* edits of calls that returned Ok, and the locations submitted with it

syncVars == <<now, rs, an, last_sync_at, call, horizon, best>>

VARIABLES
    tasks,         \* table tasks, keyed by id
    permits,       \* per scheduler, the units of its semaphore and who holds each
    sched          \* per scheduler, its poll loop: position, polled batch, count

schedVars == <<tasks, permits, sched>>

vars == <<now, rs, an, last_sync_at, call, horizon, best, tasks, permits, sched>>

(***************************************************************************)
(* Rows and edits                                                          *)
(***************************************************************************)
NoRs == [present |-> FALSE, location |-> "", device_id |-> "", updated_at |-> 0]
\* (deleted_by is history, not a column: the device whose sync set deleted_at)
NoAn == [present |-> FALSE, user_id |-> "", book_id |-> "", content |-> "",
         updated_at |-> 0, deleted_at |-> 0, deleted_by |-> ""]

\* ReadingStateSync as sent by a client, with updated_at drawn from ts
RsEdits(ts) == [book_id : Books, location : Locations, updated_at : ts]
\* AnnotationSync as sent by a client, with updated_at drawn from ts
AnEdits(ts) == [id : AnnIds, book_id : Books, content : Contents,
                updated_at : ts, deleted : BOOLEAN]

SeqsUpTo(S, n) == UNION {[1..k -> S] : k \in 0..n}

Range(s) == {s[k] : k \in 1..Len(s)}

(***************************************************************************)
(* Schema behaviour (migrations): column default and row-update touch      *)
(***************************************************************************)
\* updated_at of a freshly inserted row: the column default NOW()
DefaultUpdatedAt(t) == t
\* updated_at of an annotations row after an UPDATE of that row
TouchUpdatedAt(old, t) == t

(***************************************************************************)
(* Store queries                                                           *)
(***************************************************************************)
\* ReadingStateQueries::get_for_book
RsGetForBook(u, b) == rs[<<u, b>>]

\* variant: INSERT ... ON CONFLICT (user_id, book_id) DO NOTHING
RsUpsertDoNothing(u, b, d, loc, t) ==
    IF rs[<<u, b>>].present
    THEN rs
    ELSE [rs EXCEPT ![<<u, b>>] =
             [present |-> TRUE, location |-> loc, device_id |-> d,
              updated_at |-> DefaultUpdatedAt(t)]]

\* variant: the DO UPDATE clause does not set updated_at
RsUpsertKeepsTime(u, b, d, loc, t) ==
    IF rs[<<u, b>>].present
    THEN [rs EXCEPT ![<<u, b>>] = [@ EXCEPT !.device_id = d, !.location = loc]]
    ELSE [rs EXCEPT ![<<u, b>>] =
             [present |-> TRUE, location |-> loc, device_id |-> d,
              updated_at |-> DefaultUpdatedAt(t)]]

\* ReadingStateQueries::upsert: INSERT ... ON CONFLICT (user_id, book_id) DO UPDATE
RsUpsert(u, b, d, loc, t) ==
    IF rs[<<u, b>>].present
    THEN [rs EXCEPT ![<<u, b>>] =
             [@ EXCEPT !.device_id = d, !.location = loc, !.updated_at = t]]
    ELSE [rs EXCEPT ![<<u, b>>] =
             [present |-> TRUE, location |-> loc, device_id |-> d,
              updated_at |-> DefaultUpdatedAt(t)]]

\* variant: the comparison with the cursor is the wrong way round
RsUpdatedBefore(u, since) ==
    {[book_id |-> b, location |-> rs[<<u, b>>].location,
      updated_at |-> rs[<<u, b>>].updated_at] :
        b \in {x \in Books : rs[<<u, x>>].present /\ rs[<<u, x>>].updated_at < since}}

\* ReadingStateQueries::get_updated_since, mapped to ReadingStateSync
RsUpdatedSince(u, since) ==
    {[book_id |-> b, location |-> rs[<<u, b>>].location,
      updated_at |-> rs[<<u, b>>].updated_at] :
        b \in {x \in Books : rs[<<u, x>>].present /\ rs[<<u, x>>].updated_at > since}}

\* AnnotationQueries::get_by_id
AnGetById(id) == an[id]

\* AnnotationQueries::upsert: INSERT ... ON CONFLICT (id) DO UPDATE
AnUpsert(id, u, b, c, t) ==
    IF an[id].present
    THEN [an EXCEPT ![id] = [@ EXCEPT !.content = c, !.deleted_at = 0,
                                      !.deleted_by = "",
                                      !.updated_at = TouchUpdatedAt(@, t)]]
    ELSE [an EXCEPT ![id] = [present |-> TRUE, user_id |-> u, book_id |-> b,
                             content |-> c, updated_at |-> DefaultUpdatedAt(t),
                             deleted_at |-> 0, deleted_by |-> ""]]

\* variant: the row is removed (DELETE FROM annotations WHERE id = $1)
AnHardDelete(id, t) == [an EXCEPT ![id] = NoAn]

\* AnnotationQueries::soft_delete: UPDATE ... WHERE id = $1 AND deleted_at IS NULL
AnSoftDelete(id, t) ==
    IF an[id].present /\ an[id].deleted_at = 0
    THEN [an EXCEPT ![id] = [@ EXCEPT !.deleted_at = t,
                                      !.updated_at = TouchUpdatedAt(@, t)]]
    ELSE an

\* variant: deleted rows are filtered out, as the listing queries do
AnUpdatedSinceLive(u, since) ==
    {[id |-> a, book_id |-> an[a].book_id, content |-> an[a].content,
      updated_at |-> an[a].updated_at, deleted |-> (an[a].deleted_at # 0)] :
        a \in {x \in AnnIds : an[x].present /\ an[x].user_id = u
                                /\ an[x].deleted_at = 0
                                /\ an[x].updated_at > since}}

\* AnnotationQueries::get_updated_since, mapped to AnnotationSync
AnUpdatedSince(u, since) ==
    {[id |-> a, book_id |-> an[a].book_id, content |-> an[a].content,
      updated_at |-> an[a].updated_at, deleted |-> (an[a].deleted_at # 0)] :
        a \in {x \in AnnIds : an[x].present /\ an[x].user_id = u
                                /\ an[x].updated_at > since}}

\* variant: the cursor is set to the time of the write, not to the given time
UpdateLastSyncRowNow(d, t) == [last_sync_at EXCEPT ![d] = now]

\* DeviceQueries::update_last_sync
UpdateLastSyncRow(d, t) == [last_sync_at EXCEPT ![d] = t]

(***************************************************************************)
(* Merge decisions                                                         *)
(***************************************************************************)
\* variant: the server also wins a tie (>= in place of >)
MergeRsBranchTie(server, client) ==
    IF server.present
    THEN IF server.updated_at >= client.updated_at THEN "server_wins"
         ELSE "client_wins"
    ELSE "insert"

\* variant: the server-wins check is missing, every differing edit is applied
MergeRsBranchNoCheck(server, client) ==
    IF server.present
    THEN IF server.updated_at = client.updated_at THEN "same" ELSE "client_wins"
    ELSE "insert"

\* SyncMerger::merge_reading_state: the branch taken for a client edit
MergeRsBranch(server, client) ==
    IF server.present
    THEN IF server.updated_at > client.updated_at THEN "server_wins"
         ELSE IF server.updated_at < client.updated_at THEN "client_wins"
         ELSE "same"
    ELSE "insert"

\* SyncMerger::merge_annotation: the branch taken for a client edit
MergeAnBranch(server, client) ==
    IF server.present
    THEN IF server.updated_at > client.updated_at THEN "server_wins"
         ELSE IF server.updated_at < client.updated_at
              THEN (IF client.deleted THEN "soft_delete" ELSE "client_wins")
         ELSE "same"
    ELSE IF ~client.deleted THEN "insert" ELSE "skip"

\* SyncConflict built by the server-wins branch
Conflict(etype, eid, client, server) ==
    [entity_type |-> etype, entity_id |-> eid,
     local_updated_at |-> client.updated_at,
     server_updated_at |-> server.updated_at,
     resolution |-> "ServerWins"]

(***************************************************************************)
(* process_sync invocations                                                *)
(***************************************************************************)
\* history carried by a replayed call: what its first run returned and left
NoFirst == [valid |-> FALSE, conflicts |-> {}, rs |-> <<>>, an |-> <<>>]

\* SyncResponse (types.rs:78-83)
NoResp == [ok |-> FALSE, server_time |-> 0, reading_states |-> {},
           annotations |-> {}, conflicts |-> <<>>]

IdleCall ==
    [pc |-> "idle", device |-> "", since |-> 0, server_time |-> 0,
     rsEdits |-> <<>>, anEdits |-> <<>>, i |-> 0,
     srvRs |-> NoRs, srvAn |-> NoAn,
     conflicts |-> <<>>, delta_rs |-> {}, delta_an |-> {},
     resp |-> NoResp,
     writes |-> 0, cursorWrites |-> 0, merged |-> 0, lsBefore |-> 0,
     rsBefore |-> <<>>, anBefore |-> <<>>,
     stale |-> {}, first |-> NoFirst]

NoBest == [ts |-> 0, locs |-> {}]

\* history: account for one more submitted edit
BestWith(b, e) ==
    IF e.updated_at > b.ts THEN [ts |-> e.updated_at, locs |-> {e.location}]
    ELSE IF e.updated_at = b.ts THEN [b EXCEPT !.locs = @ \cup {e.location}]
    ELSE b

RECURSIVE BestAfter(_, _, _)
BestAfter(b, edits, book) ==
    IF edits = <<>> THEN b
    ELSE BestAfter(IF Head(edits).book_id = book THEN BestWith(b, Head(edits)) ELSE b,
                   Tail(edits), book)

\* the position after the reading-state loop (merge.rs:39-46)
AfterRsLoop(k) == IF Len(k.anEdits) > 0 THEN "an_get" ELSE "query_rs"

\* the record of a call that has just entered process_sync (merge.rs:31-36):
\* server_time = Utc::now(); last_sync_at of the request, None (0) is the epoch
Started(d, since, res, aes, t) ==
    [IdleCall EXCEPT
        !.pc = IF Len(res) > 0 THEN "rs_get"
               ELSE IF Len(aes) > 0 THEN "an_get" ELSE "query_rs",
        !.device = d, !.since = since, !.server_time = t,
        !.rsEdits = res, !.anEdits = aes, !.i = 1,
        !.lsBefore = last_sync_at[d], !.rsBefore = rs, !.anBefore = an]

\* variant: the device's cursor is advanced on entry, before the edits are merged
BeginCursorFirst(c, d, res, aes) ==
    /\ call[c].pc = "idle"
    /\ now < horizon
    /\ now' = now + 1
    /\ call' = [call EXCEPT ![c] = Started(d, last_sync_at[d], res, aes, now + 1)]
    /\ last_sync_at' = UpdateLastSyncRow(d, now + 1)
    /\ UNCHANGED <<rs, an, horizon, best,
       tasks, permits, sched>>

\* a device sends a sync request carrying its cursor: the server_time of
\* its last Ok response, which is what last_sync_at holds for it
Begin(c, d, res, aes) ==
    /\ call[c].pc = "idle"
    /\ now < horizon
    /\ now' = now + 1
    /\ call' = [call EXCEPT ![c] = Started(d, last_sync_at[d], res, aes, now + 1)]
    /\ UNCHANGED <<rs, an, last_sync_at, horizon, best,
       tasks, permits, sched>>

\* the response of a completed call is lost and the device sends the
\* identical request, cursor included, again
Retry(c) ==
    LET k == call[c]
    IN  /\ k.pc = "done"
        /\ ~k.first.valid
        /\ \A o \in Calls \ {c} : call[o].pc = "idle"
        /\ now < horizon
        /\ now' = now + 1
        /\ call' = [call EXCEPT ![c] =
              [Started(k.device, k.since, k.rsEdits, k.anEdits, now + 1) EXCEPT
                  !.first = [valid |-> TRUE, conflicts |-> Range(k.conflicts),
                             rs |-> rs, an |-> an]]]
        /\ UNCHANGED <<rs, an, last_sync_at, horizon, best,
           tasks, permits, sched>>

\* merge_reading_state, first store call: get_for_book (merge.rs:85-90)
RsGet(c) ==
    /\ call[c].pc = "rs_get"
    /\ call' = [call EXCEPT ![c].pc = "rs_apply",
                            ![c].srvRs = RsGetForBook(Owner(call[c].device),
                                            call[c].rsEdits[call[c].i].book_id)]
    /\ UNCHANGED <<now, rs, an, last_sync_at, horizon, best,
       tasks, permits, sched>>

\* merge_reading_state, decision and write (merge.rs:92-129)
RsApply(c) ==
    LET k == call[c]
        e == k.rsEdits[k.i]
        u == Owner(k.device)
        br == MergeRsBranch(k.srvRs, e)
        nxt == IF k.i < Len(k.rsEdits) THEN "rs_get" ELSE AfterRsLoop(k)
        isStale == k.srvRs.present /\ e.updated_at < k.srvRs.updated_at
        k1 == [k EXCEPT !.pc = nxt, !.i = IF nxt = "rs_get" THEN k.i + 1 ELSE 1,
                        !.srvRs = NoRs, !.merged = k.merged + 1,
                        !.stale = IF isStale
                                  THEN @ \cup {<<"reading_state", e.book_id>>} ELSE @]
    IN  /\ k.pc = "rs_apply"
        /\ IF br \in {"client_wins", "insert"}
           THEN /\ now < horizon
                /\ now' = now + 1
                /\ rs' = RsUpsert(u, e.book_id, k.device, e.location, now + 1)
                /\ call' = [call EXCEPT ![c] = [k1 EXCEPT !.writes = k.writes + 1]]
           ELSE /\ UNCHANGED <<now, rs>>
                /\ call' = [call EXCEPT ![c] =
                      [k1 EXCEPT !.conflicts =
                          IF br = "server_wins"
                          THEN Append(@, Conflict("reading_state", e.book_id, e, k.srvRs))
                          ELSE @]]
        /\ UNCHANGED <<an, last_sync_at, horizon, best,
           tasks, permits, sched>>

\* merge_annotation, first store call: get_by_id (merge.rs:138-141)
AnGet(c) ==
    /\ call[c].pc = "an_get"
    /\ call' = [call EXCEPT ![c].pc = "an_apply",
                            ![c].srvAn = AnGetById(call[c].anEdits[call[c].i].id)]
    /\ UNCHANGED <<now, rs, an, last_sync_at, horizon, best,
       tasks, permits, sched>>

\* history: note the device whose sync turned row id into a tombstone
DeletedBy(table, id, d) ==
    IF table[id].deleted_at # 0 /\ an[id].deleted_at = 0
    THEN [table EXCEPT ![id].deleted_by = d]
    ELSE table

\* merge_annotation, decision and write (merge.rs:143-194)
AnApply(c) ==
    LET k == call[c]
        e == k.anEdits[k.i]
        u == Owner(k.device)
        br == MergeAnBranch(k.srvAn, e)
        nxt == IF k.i < Len(k.anEdits) THEN "an_get" ELSE "query_rs"
        isStale == k.srvAn.present /\ e.updated_at < k.srvAn.updated_at
        k1 == [k EXCEPT !.pc = nxt, !.i = IF nxt = "an_get" THEN k.i + 1 ELSE 1,
                        !.srvAn = NoAn, !.merged = k.merged + 1,
                        !.stale = IF isStale
                                  THEN @ \cup {<<"annotation", e.id>>} ELSE @]
    IN  /\ k.pc = "an_apply"
        /\ IF br \in {"client_wins", "insert", "soft_delete"}
           THEN /\ now < horizon
                /\ now' = now + 1
                /\ an' = IF br = "soft_delete"
                         THEN DeletedBy(AnSoftDelete(e.id, now + 1), e.id, k.device)
                         ELSE AnUpsert(e.id, u, e.book_id, e.content, now + 1)
                /\ call' = [call EXCEPT ![c] = [k1 EXCEPT !.writes = k.writes + 1]]
           ELSE /\ UNCHANGED <<now, an>>
                /\ call' = [call EXCEPT ![c] =
                      [k1 EXCEPT !.conflicts =
                          IF br = "server_wins"
                          THEN Append(@, Conflict("annotation", e.id, e, k.srvAn))
                          ELSE @]]
        /\ UNCHANGED <<rs, last_sync_at, horizon, best,
           tasks, permits, sched>>

\* variant: the delta is taken since this call's server_time, not since the
\* cursor of the request
QueryRsSinceServerTime(c) ==
    /\ call[c].pc = "query_rs"
    /\ call' = [call EXCEPT ![c].pc = "query_an",
                   ![c].delta_rs = RsUpdatedSince(Owner(call[c].device),
                                                  call[c].server_time)]
    /\ UNCHANGED <<now, rs, an, last_sync_at, horizon, best,
       tasks, permits, sched>>

\* get_reading_states_since (merge.rs:59-61)
QueryRs(c) ==
    /\ call[c].pc = "query_rs"
    /\ call' = [call EXCEPT ![c].pc = "query_an",
                   ![c].delta_rs = RsUpdatedSince(Owner(call[c].device), call[c].since)]
    /\ UNCHANGED <<now, rs, an, last_sync_at, horizon, best,
       tasks, permits, sched>>

\* get_annotations_since (merge.rs:62-64)
QueryAn(c) ==
    /\ call[c].pc = "query_an"
    /\ call' = [call EXCEPT ![c].pc = "update_last_sync",
                   ![c].delta_an = AnUpdatedSince(Owner(call[c].device), call[c].since)]
    /\ UNCHANGED <<now, rs, an, last_sync_at, horizon, best,
       tasks, permits, sched>>

\* DeviceQueries::update_last_sync and the Ok(SyncResponse) (merge.rs:67-74)
UpdateLastSync(c) ==
    LET k == call[c]
        u == Owner(k.device)
    IN  /\ k.pc = "update_last_sync"
        /\ last_sync_at' = UpdateLastSyncRow(k.device, k.server_time)
        /\ call' = [call EXCEPT ![c].pc = "done",
                                ![c].cursorWrites = k.cursorWrites + 1,
                                ![c].resp = [ok |-> TRUE,
                                             server_time |-> k.server_time,
                                             reading_states |-> k.delta_rs,
                                             annotations |-> k.delta_an,
                                             conflicts |-> k.conflicts]]
        /\ best' = [key \in Users \X Books |->
                       IF key[1] = u THEN BestAfter(best[key], k.rsEdits, key[2])
                       ELSE best[key]]
        /\ UNCHANGED <<now, rs, an, horizon,
           tasks, permits, sched>>

\* a store call returns Err: the `?` of merge.rs:42,52,61,64,67 ends the call
StoreError(c) ==
    LET k == call[c]
    IN  /\ \/ k.pc \in {"rs_get", "an_get", "query_rs", "query_an", "update_last_sync"}
           \/ k.pc = "rs_apply"
                /\ MergeRsBranch(k.srvRs, k.rsEdits[k.i]) \in {"client_wins", "insert"}
           \/ k.pc = "an_apply"
                /\ MergeAnBranch(k.srvAn, k.anEdits[k.i])
                       \in {"client_wins", "insert", "soft_delete"}
        /\ call' = [call EXCEPT ![c].pc = "failed"]
        /\ UNCHANGED <<now, rs, an, last_sync_at, horizon, best,
           tasks, permits, sched>>

\* the caller gets the result: Ok(SyncResponse) or the error
Return(c) ==
    /\ call[c].pc \in {"done", "failed"}
    /\ call' = [call EXCEPT ![c] = IdleCall]
    /\ UNCHANGED <<now, rs, an, last_sync_at, horizon, best,
       tasks, permits, sched>>

(***************************************************************************)
(* Task store (db_layer/src/queries/tasks.rs, db_layer/src/models/task.rs) *)
(***************************************************************************)
TaskIds == 1..MaxTasks
Permits == 1..Capacity
\* the scheduler instances (worker daemons) that poll the same task store
Schedulers == {"w1", "w2"}

\* the limit poll_and_execute passes to get_pending
BatchLimit == 10
\* CreateTask::new
DefaultPriority == 0
DefaultMaxAttempts == 3

\* a type ReindexBookHandler is registered for, and a type the admin routes
\* create tasks of, for which main() registers no handler
Registered == {"reindex_book"}

\* CreateTask::new
New(ty) == [task_type |-> ty, priority |-> DefaultPriority,
            max_attempts |-> DefaultMaxAttempts]
\* CreateTask::with_priority
WithPriority(data, pr) == [data EXCEPT !.priority = pr]
\* CreateTask::with_max_attempts
WithMaxAttempts(data, ma) == [data EXCEPT !.max_attempts = ma]

\* the CreateTask values callers insert: a reindex_book task, one that is
\* given a single attempt, and the backup task of the admin route
Requests == {New("reindex_book"),
             WithMaxAttempts(New("reindex_book"), 1),
             WithPriority(New("create_backup"), 10)}

\* what a spawned execution passes to mark_failed: the text of the Err a
\* handler returns (ReindexBookHandler::execute when its book is missing),
\* and the text of the timeout arm
HandlerErrors == {"Book not found", "Task timed out"}

\* a row that has not been inserted; the fields claims and runs are history:
\* the number of times the row went from pending to running, and the number
\* of handler executions spawned for it
NoTask == [status |-> "absent", task_type |-> "", priority |-> 0, attempts |-> 0,
           max_attempts |-> 0, scheduled_at |-> 0, error |-> "", claims |-> 0,
           runs |-> 0]

\* TaskQueries::create, with scheduled_at None: the row as inserted at time t
TaskCreate(data, t) ==
    [status |-> "pending", task_type |-> data.task_type, priority |-> data.priority,
     attempts |-> 0, max_attempts |-> data.max_attempts, scheduled_at |-> t,
     error |-> "", claims |-> 0, runs |-> 0]

\* variant: ORDER BY scheduled_at ASC alone
BeforeFifo(a, b) == tasks[a].scheduled_at < tasks[b].scheduled_at

\* ORDER BY priority DESC, scheduled_at ASC
Before(a, b) ==
    \/ tasks[a].priority > tasks[b].priority
    \/ /\ tasks[a].priority = tasks[b].priority
       /\ tasks[a].scheduled_at < tasks[b].scheduled_at

RECURSIVE Ordered(_)
Ordered(S) ==
    IF S = {} THEN <<>>
    ELSE LET h == CHOOSE x \in S : \A y \in S \ {x} : Before(x, y)
         IN  <<h>> \o Ordered(S \ {h})

\* TaskQueries::get_pending: the ids of the rows returned, in order
GetPending(limit) ==
    LET due == {t \in TaskIds : /\ tasks[t].status = "pending"
                                /\ tasks[t].scheduled_at <= now}
        all == Ordered(due)
    IN  SubSeq(all, 1, IF Len(all) < limit THEN Len(all) ELSE limit)

\* variant: the UPDATE of mark_started has no status = 'pending' condition
MarkStartedAnyStatus(id) ==
    [tasks EXCEPT ![id].status = "running",
                  ![id].attempts = tasks[id].attempts + 1,
                  ![id].claims = tasks[id].claims + 1]

\* TaskQueries::mark_started
MarkStarted(id) ==
    IF tasks[id].status = "pending"
    THEN [tasks EXCEPT ![id].status = "running",
                       ![id].attempts = tasks[id].attempts + 1,
                       ![id].claims = tasks[id].claims + 1]
    ELSE tasks

\* TaskQueries::mark_completed
MarkCompleted(id) ==
    IF tasks[id].status = "running"
    THEN [tasks EXCEPT ![id].status = "completed"]
    ELSE tasks

\* TaskQueries::mark_failed that always retries
MarkFailedAlwaysRetry(task) == "pending"

\* TaskQueries::mark_failed, first half: the status chosen from the row read
MarkFailedStatus(task) ==
    IF task.attempts < task.max_attempts THEN "pending" ELSE "failed"

\* TaskQueries::mark_failed, second half: the UPDATE
MarkFailedUpdate(id, new_status, error) ==
    IF tasks[id].status = "running"
    THEN [tasks EXCEPT ![id].status = new_status, ![id].error = error]
    ELSE tasks

(***************************************************************************)
(* Scheduler (worker_daemon/src/scheduler.rs)                              *)
(***************************************************************************)
\* a unit of the semaphore: free, held by the poll loop, or held by a
\* spawned execution at one of its stages
FreePermit == [stage |-> "free", task |-> 0, error |-> "", new_status |-> ""]

FreePermits(s) == {p \in Permits : permits[s][p].stage = "free"}

\* the unit the poll loop holds
LoopPermits(s) == {p \in Permits : permits[s][p].stage = "loop"}

\* variant: the unit is not given back when its holder is dropped
ReleaseForgets(s, p) == [permits EXCEPT ![s][p].stage = "forgotten"]

Release(s, p) == [permits EXCEPT ![s][p] = FreePermit]

\* the for loop moves on to the next polled task; after the last one
\* poll_and_execute returns Ok(count) and run() sleeps only when count = 0
NextTask(s, count) ==
    LET rest == Tail(sched[s].batch)
    IN  IF rest = <<>>
        THEN [pc |-> IF count > 0 THEN "poll" ELSE "sleep",
              batch |-> <<>>, count |-> 0]
        ELSE [pc |-> "acquire", batch |-> rest, count |-> count]

\* a caller of TaskQueries::create (the admin routes) inserts a task
CreateTask(id, data) ==
    /\ tasks[id].status = "absent"
    /\ \A o \in TaskIds : o < id => tasks[o].status # "absent"
    /\ now' = now + 1
    /\ tasks' = [tasks EXCEPT ![id] = TaskCreate(data, now')]
    /\ UNCHANGED <<permits, sched>>
    /\ UNCHANGED <<rs, an, last_sync_at, call, horizon, best>>

\* poll_and_execute: get_pending returns Ok; an empty batch is Ok(0)
Poll(s) ==
    /\ sched[s].pc = "poll"
    /\ LET pending == GetPending(BatchLimit)
       IN  sched' = [sched EXCEPT ![s] =
                        IF pending = <<>>
                        THEN [pc |-> "sleep", batch |-> <<>>, count |-> 0]
                        ELSE [pc |-> "acquire", batch |-> pending, count |-> 0]]
    /\ UNCHANGED <<now, tasks, permits>>
    /\ UNCHANGED <<rs, an, last_sync_at, call, horizon, best>>

\* variant: run() propagates the error of poll_and_execute and returns
PollErrorReturns(s) ==
    /\ sched[s].pc = "poll"
    /\ sched' = [sched EXCEPT ![s] = [pc |-> "returned", batch |-> <<>>, count |-> 0]]
    /\ UNCHANGED <<now, tasks, permits>>
    /\ UNCHANGED <<rs, an, last_sync_at, call, horizon, best>>

\* poll_and_execute: get_pending returns Err; the Err arm of run() logs it
\* and sleeps one poll interval
PollError(s) ==
    /\ sched[s].pc = "poll"
    /\ sched' = [sched EXCEPT ![s] = [pc |-> "error_sleep", batch |-> <<>>, count |-> 0]]
    /\ UNCHANGED <<now, tasks, permits>>
    /\ UNCHANGED <<rs, an, last_sync_at, call, horizon, best>>

\* run(): the poll interval has passed
Wake(s) ==
    /\ sched[s].pc \in {"sleep", "error_sleep"}
    /\ sched' = [sched EXCEPT ![s].pc = "poll"]
    /\ UNCHANGED <<now, tasks, permits>>
    /\ UNCHANGED <<rs, an, last_sync_at, call, horizon, best>>

\* acquire_owned: waits until a unit is free
Acquire(s) ==
    /\ sched[s].pc = "acquire"
    /\ FreePermits(s) # {}
    /\ LET p == CHOOSE x \in FreePermits(s) : \A y \in FreePermits(s) : x <= y
       IN  permits' = [permits EXCEPT ![s][p] =
                          [FreePermit EXCEPT !.stage = "loop",
                                             !.task = Head(sched[s].batch)]]
    /\ sched' = [sched EXCEPT ![s].pc = "mark_started"]
    /\ UNCHANGED <<now, tasks>>
    /\ UNCHANGED <<rs, an, last_sync_at, call, horizon, best>>

\* mark_started returns Ok (its boolean is not looked at), then the registry
\* lookup: with a handler the execution is spawned with the unit and
\* count is incremented; without one mark_failed is called next
Claim(s) ==
    /\ sched[s].pc = "mark_started"
    /\ LET id == Head(sched[s].batch)
           p  == CHOOSE x \in LoopPermits(s) : TRUE
       IN  /\ IF tasks[id].task_type \in Registered
              THEN /\ tasks' = [MarkStarted(id) EXCEPT ![id].runs = @ + 1]
                   /\ permits' = [permits EXCEPT ![s][p].stage = "handler"]
                   /\ sched' = [sched EXCEPT ![s] = NextTask(s, sched[s].count + 1)]
              ELSE /\ tasks' = MarkStarted(id)
                   /\ permits' = permits
                   /\ sched' = [sched EXCEPT ![s].pc = "no_handler_get"]
    /\ UNCHANGED now
    /\ UNCHANGED <<rs, an, last_sync_at, call, horizon, best>>

\* variant: the unit taken for the task is kept when mark_started fails
ClaimErrorKeepsUnit(s) ==
    /\ sched[s].pc = "mark_started"
    /\ permits' = [permits EXCEPT
                      ![s][CHOOSE x \in LoopPermits(s) : TRUE].stage = "kept"]
    /\ sched' = [sched EXCEPT ![s] = NextTask(s, sched[s].count)]
    /\ UNCHANGED <<now, tasks>>
    /\ UNCHANGED <<rs, an, last_sync_at, call, horizon, best>>

\* mark_started returns Err: logged, the unit is dropped, next task
ClaimError(s) ==
    /\ sched[s].pc = "mark_started"
    /\ permits' = Release(s, CHOOSE x \in LoopPermits(s) : TRUE)
    /\ sched' = [sched EXCEPT ![s] = NextTask(s, sched[s].count)]
    /\ UNCHANGED <<now, tasks>>
    /\ UNCHANGED <<rs, an, last_sync_at, call, horizon, best>>

\* no handler: mark_failed reads the row and chooses the new status
NoHandlerGet(s) ==
    /\ sched[s].pc = "no_handler_get"
    /\ LET p == CHOOSE x \in LoopPermits(s) : TRUE
       IN  permits' = [permits EXCEPT
                          ![s][p].new_status = MarkFailedStatus(tasks[permits[s][p].task]),
                          ![s][p].error = "No handler for task type"]
    /\ sched' = [sched EXCEPT ![s].pc = "no_handler_update"]
    /\ UNCHANGED <<now, tasks>>
    /\ UNCHANGED <<rs, an, last_sync_at, call, horizon, best>>

\* no handler: mark_failed updates the row; continue drops the unit
NoHandlerUpdate(s) ==
    /\ sched[s].pc = "no_handler_update"
    /\ LET p == CHOOSE x \in LoopPermits(s) : TRUE
       IN  /\ tasks' = MarkFailedUpdate(permits[s][p].task, permits[s][p].new_status,
                                        permits[s][p].error)
           /\ permits' = Release(s, p)
    /\ sched' = [sched EXCEPT ![s] = NextTask(s, sched[s].count)]
    /\ UNCHANGED now
    /\ UNCHANGED <<rs, an, last_sync_at, call, horizon, best>>

\* no handler: a store call of mark_failed returns Err, which is discarded
NoHandlerError(s) ==
    /\ sched[s].pc \in {"no_handler_get", "no_handler_update"}
    /\ permits' = Release(s, CHOOSE x \in LoopPermits(s) : TRUE)
    /\ sched' = [sched EXCEPT ![s] = NextTask(s, sched[s].count)]
    /\ UNCHANGED <<now, tasks>>
    /\ UNCHANGED <<rs, an, last_sync_at, call, horizon, best>>

\* the spawned execution, Ok(Ok(_)): the handler returns Ok and mark_completed
\* returns Ok; the execution ends and drops the unit
ExecCompleted(s, p) ==
    /\ permits[s][p].stage = "handler"
    /\ tasks' = MarkCompleted(permits[s][p].task)
    /\ permits' = Release(s, p)
    /\ UNCHANGED <<now, sched>>
    /\ UNCHANGED <<rs, an, last_sync_at, call, horizon, best>>

\* the spawned execution, Ok(Err(e)) or Err(_): the handler returns Err or the
\* timeout fires; mark_failed reads the row and chooses the new status
ExecFailed(s, p, error) ==
    /\ permits[s][p].stage = "handler"
    /\ permits' = [permits EXCEPT
          ![s][p].stage = "mark_failed_update",
          ![s][p].error = error,
          ![s][p].new_status = MarkFailedStatus(tasks[permits[s][p].task])]
    /\ UNCHANGED <<now, tasks, sched>>
    /\ UNCHANGED <<rs, an, last_sync_at, call, horizon, best>>

\* mark_failed updates the row, the execution ends and drops the unit
ExecMarkFailedUpdate(s, p) ==
    /\ permits[s][p].stage = "mark_failed_update"
    /\ tasks' = MarkFailedUpdate(permits[s][p].task, permits[s][p].new_status,
                                 permits[s][p].error)
    /\ permits' = Release(s, p)
    /\ UNCHANGED <<now, sched>>
    /\ UNCHANGED <<rs, an, last_sync_at, call, horizon, best>>

\* the handler has returned or timed out and a store call of mark_completed
\* or mark_failed returns Err: it is logged or discarded, the execution ends
\* and drops the unit
ExecStoreError(s, p) ==
    /\ permits[s][p].stage \in {"handler", "mark_failed_update"}
    /\ permits' = Release(s, p)
    /\ UNCHANGED <<now, tasks, sched>>
    /\ UNCHANGED <<rs, an, last_sync_at, call, horizon, best>>

SchedNext ==
    \/ \E id \in TaskIds, data \in Requests : CreateTask(id, data)
    \/ \E s \in {"w1"} : Poll(s)
    \/ \E s \in {"w1"} : PollError(s)
    \/ \E s \in {"w1"} : Wake(s)
    \/ \E s \in {"w1"} : Acquire(s)
    \/ \E s \in {"w1"} : Claim(s)
    \/ \E s \in {"w1"} : ClaimError(s)
    \/ \E s \in {"w1"} : NoHandlerGet(s)
    \/ \E s \in {"w1"} : NoHandlerUpdate(s)
    \/ \E s \in {"w1"} : NoHandlerError(s)
    \/ \E s \in {"w1"}, p \in Permits : ExecCompleted(s, p)
    \/ \E s \in {"w1"}, p \in Permits, error \in HandlerErrors :
            ExecFailed(s, p, error)
    \/ \E s \in {"w1"}, p \in Permits : ExecMarkFailedUpdate(s, p)
    \/ \E s \in {"w1"}, p \in Permits : ExecStoreError(s, p)

(***************************************************************************)
(* Specifications                                                          *)
(***************************************************************************)
\* SyncMerger::new over empty tables; TaskScheduler::new and the entry of run()
Init ==
    /\ now = 0
    /\ horizon = MaxTime
    /\ rs = [k \in Users \X Books |-> NoRs]
    /\ an = [a \in AnnIds |-> NoAn]
    /\ last_sync_at = [d \in Devices |-> 0]
    /\ call = [c \in Calls |-> IdleCall]
    /\ best = [k \in Users \X Books |-> NoBest]
    /\ tasks = [t \in TaskIds |-> NoTask]
    /\ permits = [s \in Schedulers |-> [p \in Permits |-> FreePermit]]
    /\ sched = [s \in Schedulers |-> [pc |-> "poll", batch |-> <<>>, count |-> 0]]

SyncNext ==
    \/ \E c \in Calls, d \in DevicesOf("u1"), res \in SeqsUpTo(RsEdits(ClientTimes), 1),
          aes \in SeqsUpTo(AnEdits(ClientTimes), 1) :
            /\ \A x \in Calls : call[x].pc = "idle"
            /\ Begin(c, d, res, aes)
    \/ \E c \in Calls : RsGet(c)
    \/ \E c \in Calls : RsApply(c)
    \/ \E c \in Calls : AnGet(c)
    \/ \E c \in Calls : AnApply(c)
    \/ \E c \in Calls : QueryRs(c)
    \/ \E c \in Calls : QueryAn(c)
    \/ \E c \in Calls : UpdateLastSync(c)
    \/ \E c \in Calls : StoreError(c)
    \/ \E c \in Calls : Retry(c)
    \/ \E c \in Calls : Return(c)

Spec == Init /\ [][SyncNext]_vars

\* the steps of process_sync calls whose store calls all succeed
OkNext ==
    \/ \E c \in Calls, d \in DevicesOf("u1"), res \in SeqsUpTo(RsEdits(ClientTimes), 1),
          aes \in SeqsUpTo(AnEdits(ClientTimes), 1) :
            /\ \A x \in Calls : call[x].pc = "idle"
            /\ Begin(c, d, res, aes)
    \/ \E c \in Calls : RsGet(c)
    \/ \E c \in Calls : RsApply(c)
    \/ \E c \in Calls : AnGet(c)
    \/ \E c \in Calls : AnApply(c)
    \/ \E c \in Calls : QueryRs(c)
    \/ \E c \in Calls : QueryAn(c)
    \/ \E c \in Calls : UpdateLastSync(c)
    \/ \E c \in Calls : Retry(c)
    \/ \E c \in Calls : Return(c)

OkSpec == Init /\ [][OkNext]_vars

\* annotation traffic only, over a longer stretch of time
TombInit ==
    /\ now = 0
    /\ horizon = MaxTombTime
    /\ rs = [k \in Users \X Books |-> NoRs]
    /\ an = [a \in AnnIds |-> NoAn]
    /\ last_sync_at = [d \in Devices |-> 0]
    /\ call = [c \in Calls |-> IdleCall]
    /\ best = [k \in Users \X Books |-> NoBest]
    /\ tasks = [t \in TaskIds |-> NoTask]
    /\ permits = [s \in Schedulers |-> [p \in Permits |-> FreePermit]]
    /\ sched = [s \in Schedulers |-> [pc |-> "poll", batch |-> <<>>, count |-> 0]]

TombTimes == 1..(MaxTombTime - 1)

TombNext ==
    \/ \E c \in Calls, d \in DevicesOf("u1"), aes \in SeqsUpTo(AnEdits(TombTimes), 1) :
            /\ \A x \in Calls : call[x].pc = "idle"
            /\ Begin(c, d, <<>>, aes)
    \/ \E c \in Calls : AnGet(c)
    \/ \E c \in Calls : AnApply(c)
    \/ \E c \in Calls : QueryRs(c)
    \/ \E c \in Calls : QueryAn(c)
    \/ \E c \in Calls : UpdateLastSync(c)
    \/ \E c \in Calls : StoreError(c)
    \/ \E c \in Calls : Return(c)

TombSpec == TombInit /\ [][TombNext]_vars

\* reading-state and annotation traffic with every store call returning Ok,
\* over a stretch of time long enough for a device to sync three times
LongInit ==
    /\ now = 0
    /\ horizon = MaxLongTime
    /\ rs = [k \in Users \X Books |-> NoRs]
    /\ an = [a \in AnnIds |-> NoAn]
    /\ last_sync_at = [d \in Devices |-> 0]
    /\ call = [c \in Calls |-> IdleCall]
    /\ best = [k \in Users \X Books |-> NoBest]
    /\ tasks = [t \in TaskIds |-> NoTask]
    /\ permits = [s \in Schedulers |-> [p \in Permits |-> FreePermit]]
    /\ sched = [s \in Schedulers |-> [pc |-> "poll", batch |-> <<>>, count |-> 0]]

LongNext ==
    \/ \E c \in Calls, d \in DevicesOf("u1"), res \in SeqsUpTo(RsEdits(ClientTimes), 1),
          aes \in SeqsUpTo(AnEdits(ClientTimes), 1) :
            /\ \A x \in Calls : call[x].pc = "idle"
            /\ Begin(c, d, res, aes)
    \/ \E c \in Calls : RsGet(c)
    \/ \E c \in Calls : RsApply(c)
    \/ \E c \in Calls : AnGet(c)
    \/ \E c \in Calls : AnApply(c)
    \/ \E c \in Calls : QueryRs(c)
    \/ \E c \in Calls : QueryAn(c)
    \/ \E c \in Calls : UpdateLastSync(c)
    \/ \E c \in Calls : Return(c)

LongSpec == LongInit /\ [][LongNext]_vars

\* the scheduler and the callers that insert tasks
SchedSpec == Init /\ [][SchedNext]_vars

\* the row the two scheduler instances contend for
PoolTasks == {1}

\* two scheduler instances polling the same task store, every store call
\* returning Ok
PoolNext ==
    \/ \E id \in PoolTasks, data \in Requests : CreateTask(id, data)
    \/ \E s \in Schedulers : Poll(s)
    \/ \E s \in Schedulers : Wake(s)
    \/ \E s \in Schedulers : Acquire(s)
    \/ \E s \in Schedulers : Claim(s)
    \/ \E s \in Schedulers : NoHandlerGet(s)
    \/ \E s \in Schedulers : NoHandlerUpdate(s)
    \/ \E s \in Schedulers, p \in Permits : ExecCompleted(s, p)
    \/ \E s \in Schedulers, p \in Permits, error \in HandlerErrors :
            ExecFailed(s, p, error)
    \/ \E s \in Schedulers, p \in Permits : ExecMarkFailedUpdate(s, p)

PoolSpec == Init /\ [][PoolNext]_vars

\* the CreateTask values of a caller that sets max_attempts itself:
\* with_max_attempts takes any i32 and create binds it unchecked
LimitRequests == {New("reindex_book"), WithMaxAttempts(New("reindex_book"), 0)}

\* one scheduler instance over tasks created with such values, every store
\* call returning Ok
LimitNext ==
    \/ \E id \in TaskIds, data \in LimitRequests : CreateTask(id, data)
    \/ Poll("w1")
    \/ Wake("w1")
    \/ Acquire("w1")
    \/ Claim("w1")
    \/ \E p \in Permits : ExecCompleted("w1", p)
    \/ \E p \in Permits, error \in HandlerErrors :
            ExecFailed("w1", p, error)
    \/ \E p \in Permits : ExecMarkFailedUpdate("w1", p)

LimitSpec == Init /\ [][LimitNext]_vars

\* CreateTask values with max_attempts >= 1: a reindex_book task that is
\* given two attempts, and the backup task of the admin route
LiveRequests == {WithMaxAttempts(New("reindex_book"), 2),
                 WithPriority(New("create_backup"), 10)}

\* one scheduler instance, every store call returning Ok, every task created
\* with max_attempts >= 1; the poll loop is scheduled fairly, a handler
\* returns or times out, and a store call that was started returns
LiveNext ==
    \/ \E id \in TaskIds, data \in LiveRequests : CreateTask(id, data)
    \/ Poll("w1")
    \/ Wake("w1")
    \/ Acquire("w1")
    \/ Claim("w1")
    \/ NoHandlerGet("w1")
    \/ NoHandlerUpdate("w1")
    \/ \E p \in Permits : ExecCompleted("w1", p)
    \/ \E p \in Permits, error \in HandlerErrors :
            ExecFailed("w1", p, error)
    \/ \E p \in Permits : ExecMarkFailedUpdate("w1", p)

LiveFairness ==
    /\ WF_vars(Poll("w1"))
    /\ WF_vars(Wake("w1"))
    /\ WF_vars(Acquire("w1"))
    /\ WF_vars(Claim("w1"))
    /\ WF_vars(NoHandlerGet("w1"))
    /\ WF_vars(NoHandlerUpdate("w1"))
    /\ \A p \in Permits :
          /\ WF_vars(ExecCompleted("w1", p)
                        \/ \E error \in HandlerErrors : ExecFailed("w1", p, error))
          /\ WF_vars(ExecMarkFailedUpdate("w1", p))

LiveSpec == Init /\ [][LiveNext]_vars /\ LiveFairness

\* process_sync calls that overlap in time: each device has one request in
\* flight at a time, and a call may begin while the other device's call is
\* between two of its store calls; reading-state edits only
ConcDevice(c) == IF c = 1 THEN "dA" ELSE "dB"
\* client timestamps on either side of the server's first write
ConcTimes == {1, MaxLongTime - 1}

ConcNext ==
    \/ \E c \in Calls, res \in [1..1 -> RsEdits(ConcTimes)] :
            Begin(c, ConcDevice(c), res, <<>>)
    \/ \E c \in Calls : RsGet(c)
    \/ \E c \in Calls : RsApply(c)
    \/ \E c \in Calls : QueryRs(c)
    \/ \E c \in Calls : QueryAn(c)
    \/ \E c \in Calls : UpdateLastSync(c)
    \/ \E c \in Calls : Return(c)

ConcSpec == LongInit /\ [][ConcNext]_vars

\* the devices of one user send requests that carry one reading-state edit
\* or one annotation edit, one call at a time, with client timestamps early
\* and late in the stretch
ChangeTimes == {1, MaxTombTime - 1}

ChangeNext ==
    \/ \E d \in DevicesOf("u1"),
          res \in SeqsUpTo(RsEdits(ChangeTimes), 1),
          aes \in SeqsUpTo(AnEdits(ChangeTimes), 1) :
            /\ \A x \in Calls : call[x].pc = "idle"
            /\ Len(res) + Len(aes) = 1
            /\ Begin(1, d, res, aes)
    \/ \E c \in Calls : RsGet(c)
    \/ \E c \in Calls : RsApply(c)
    \/ \E c \in Calls : AnGet(c)
    \/ \E c \in Calls : AnApply(c)
    \/ \E c \in Calls : QueryRs(c)
    \/ \E c \in Calls : QueryAn(c)
    \/ \E c \in Calls : UpdateLastSync(c)
    \/ \E c \in Calls : Return(c)

ChangeSpec == TombInit /\ [][ChangeNext]_vars

\* one device whose sync calls overlap in time (a retry sent while the
\* first request is still being processed); reading-state edits only
OverlapNext ==
    \/ \E c \in Calls, res \in SeqsUpTo(RsEdits(ConcTimes), 1) :
            Begin(c, "dA", res, <<>>)
    \/ \E c \in Calls : RsGet(c)
    \/ \E c \in Calls : RsApply(c)
    \/ \E c \in Calls : QueryRs(c)
    \/ \E c \in Calls : QueryAn(c)
    \/ \E c \in Calls : UpdateLastSync(c)
    \/ \E c \in Calls : Return(c)

OverlapSpec == LongInit /\ [][OverlapNext]_vars

\* two users: a device of each sends annotation edits, one call at a time
UserDevices == {"dA", "dC"}

UserNext ==
    \/ \E c \in Calls, d \in UserDevices, aes \in [1..1 -> AnEdits(TombTimes)] :
            /\ \A x \in Calls : call[x].pc = "idle"
            /\ Begin(c, d, <<>>, aes)
    \/ \E c \in Calls : AnGet(c)
    \/ \E c \in Calls : AnApply(c)
    \/ \E c \in Calls : QueryRs(c)
    \/ \E c \in Calls : QueryAn(c)
    \/ \E c \in Calls : UpdateLastSync(c)
    \/ \E c \in Calls : Return(c)

UserSpec == TombInit /\ [][UserNext]_vars

(***************************************************************************)
(* Properties of process_sync                                              *)
(***************************************************************************)

\* the response of call k names entity <<etype, eid>> in a ServerWins conflict
HasServerWins(k, etype, eid) ==
    \E j \in 1..Len(k.resp.conflicts) :
        /\ k.resp.conflicts[j].entity_type = etype
        /\ k.resp.conflicts[j].entity_id = eid
        /\ k.resp.conflicts[j].resolution = "ServerWins"

\* C1: when process_sync merges an edit whose updated_at is strictly earlier
\* than that of the server row it read for the entity, the merge leaves both
\* tables as they are, and the response of the call, once it returns Ok,
\* holds a ServerWins conflict naming the entity.
C1_StaleEditRejected ==
    [][\A c \in Calls :
          /\ ( /\ call[c].pc = "rs_apply"
               /\ call'[c].pc # "rs_apply"
               /\ call[c].srvRs.present
               /\ call[c].rsEdits[call[c].i].updated_at < call[c].srvRs.updated_at )
             => /\ rs' = rs /\ an' = an
                /\ call'[c].pc # "failed"
          /\ ( /\ call[c].pc = "an_apply"
               /\ call'[c].pc # "an_apply"
               /\ call[c].srvAn.present
               /\ call[c].anEdits[call[c].i].updated_at < call[c].srvAn.updated_at )
             => /\ rs' = rs /\ an' = an
                /\ call'[c].pc # "failed"
          /\ ( call[c].pc # "done" /\ call'[c].pc = "done" )
             => \A x \in call'[c].stale : HasServerWins(call'[c], x[1], x[2])
      ]_syncVars

\* a call returned Ok after it merged an edit older than the server row
C1_Witness ==
    \E c \in Calls :
        /\ call[c].pc = "done"
        /\ call[c].stale # {}
        /\ Len(call[c].resp.conflicts) > 0

\* C2: once the process_sync calls made so far have all returned Ok, the
\* stored ReadingState of a key holds the location of the submitted edit with
\* the greatest updated_at.
C2_LatestEditKept ==
    (\A c \in Calls : call[c].pc = "idle") =>
        \A key \in Users \X Books :
            best[key].ts > 0 =>
                /\ rs[key].present
                /\ rs[key].location \in best[key].locs

\* C3: a call that replays the request of the call before it leaves both
\* tables as that call left them and returns the same set of conflicts.
C3_ReplayIdempotent ==
    \A c \in Calls :
        (call[c].pc = "done" /\ call[c].first.valid) =>
            /\ rs = call[c].first.rs
            /\ an = call[c].first.an
            /\ Range(call[c].resp.conflicts) = call[c].first.conflicts

\* C4: the response of a call that returned Ok holds every reading state and
\* every annotation of the user, tombstones included, whose stored updated_at
\* is strictly greater than the cursor of the request.
C4_DeltaComplete ==
    \A c \in Calls :
        call[c].pc = "done" =>
            LET k == call[c]
                u == Owner(k.device)
            IN  /\ \A b \in Books :
                      (rs[<<u, b>>].present /\ rs[<<u, b>>].updated_at > k.since) =>
                          \E r \in k.resp.reading_states :
                              /\ r.book_id = b
                              /\ r.location = rs[<<u, b>>].location
                              /\ r.updated_at = rs[<<u, b>>].updated_at
                /\ \A a \in AnnIds :
                      ( /\ an[a].present
                        /\ an[a].user_id = u
                        /\ an[a].updated_at > k.since ) =>
                          \E r \in k.resp.annotations :
                              /\ r.id = a
                              /\ r.content = an[a].content
                              /\ r.updated_at = an[a].updated_at
                              /\ r.deleted = (an[a].deleted_at # 0)

\* a device that has synced before gets, in its delta, a reading state that
\* another device wrote after that sync
C4_Witness ==
    \E c \in Calls, b \in Books :
        LET k == call[c]
            row == rs[<<Owner(k.device), b>>]
        IN  /\ k.pc = "done"
            /\ row.present
            /\ row.device_id # k.device
            /\ row.updated_at > k.since
            /\ \E r \in k.resp.reading_states : r.book_id = b

C6_FailedCallAppliesNothing ==
    \A c \in Calls :
        call[c].pc = "failed" =>
            /\ rs = call[c].rsBefore
            /\ an = call[c].anBefore

\* C7: a process_sync call in which a store operation failed returns an error
\* (no response) and has not written the device's last_sync_at, which still
\* has the value it had when the call began.
C7_FailureKeepsCursor ==
    \A c \in Calls :
        call[c].pc = "failed" =>
            /\ ~call[c].resp.ok
            /\ call[c].cursorWrites = 0
            /\ last_sync_at[call[c].device] = call[c].lsBefore

\* a call fails after one of its edits was written, on a device that had
\* completed a sync before
C7_Witness ==
    \E c \in Calls :
        /\ call[c].pc = "failed"
        /\ call[c].writes > 0
        /\ call[c].lsBefore > 0

\* C8: a call that returned Ok wrote last_sync_at exactly once, did so only
\* after every edit of the request had been merged, and wrote the server_time
\* it captured on entry, which is the server_time of the response; a call
\* that has not returned Ok has not written it.
C8_CursorWrittenOnceAtEnd ==
    \A c \in Calls :
        /\ call[c].pc = "done" =>
              /\ call[c].cursorWrites = 1
              /\ call[c].merged = Len(call[c].rsEdits) + Len(call[c].anEdits)
              /\ last_sync_at[call[c].device] = call[c].server_time
              /\ call[c].resp.server_time = call[c].server_time
              /\ call[c].server_time > call[c].lsBefore
        /\ call[c].pc # "done" => call[c].cursorWrites = 0

\* a call returns Ok after it wrote an edit, so that the clock has moved on
\* since server_time was captured
C8_Witness ==
    \E c \in Calls :
        /\ call[c].pc = "done"
        /\ call[c].writes > 0
        /\ call[c].merged > 0
        /\ now > call[c].server_time

(***************************************************************************)
(* Properties of the task scheduler                                        *)
(***************************************************************************)

\* the retry bound as it shows in one step of the task table
RetryStep(t) ==
    /\ (tasks[t].status = "pending" /\ tasks'[t].status = "running")
          => /\ tasks'[t].claims = tasks[t].claims + 1
             /\ tasks'[t].attempts = tasks[t].attempts + 1
    /\ (tasks[t].status = "running" /\ tasks'[t].status = "pending")
          => tasks[t].claims < tasks[t].max_attempts
    /\ (tasks[t].status = "running" /\ tasks'[t].status = "failed")
          => tasks[t].claims = tasks[t].max_attempts
    /\ tasks[t].status = "failed" => tasks'[t] = tasks[t]

\* C9: a task whose handler fails or times out on every attempt is claimed
\* Pending->Running exactly max_attempts times, then becomes Failed with
\* attempts = max_attempts, and is never claimed again: no task is claimed more
\* than max_attempts times, every claim counts one attempt, a failed attempt
\* puts the task back to Pending while it has been claimed fewer than
\* max_attempts times and to Failed at the max_attempts-th claim, a Failed
\* task has been claimed exactly max_attempts times and has
\* attempts = max_attempts, and a Failed task never changes again.
C9_RetryBound ==
    /\ [](\A t \in TaskIds :
            /\ tasks[t].claims <= tasks[t].max_attempts
            /\ tasks[t].attempts = tasks[t].claims
            /\ tasks[t].status = "failed"
                  => /\ tasks[t].claims = tasks[t].max_attempts
                     /\ tasks[t].attempts = tasks[t].max_attempts)
    /\ [][\A t \in TaskIds : RetryStep(t)]_vars

\* a task with a registered handler and the default max_attempts 3 that has
\* been claimed three times is Failed after its handler timed out
C9_Witness ==
    \E t \in TaskIds :
        /\ tasks[t].task_type \in Registered
        /\ tasks[t].max_attempts = DefaultMaxAttempts
        /\ tasks[t].status = "failed"
        /\ tasks[t].claims = DefaultMaxAttempts
        /\ tasks[t].error = "Task timed out"

\* C10: with limiter capacity N and more than N tasks due at the same time,
\* at every instant at most N tasks have status Running.
C10_AtMostCapacityRunning ==
    Cardinality({t \in TaskIds : tasks[t].status = "running"}) <= Capacity

\* C11: a task whose type has no registered handler goes from Pending directly
\* to Failed: it never has status Running, and it is marked Failed the first
\* time the scheduler picks it up (so while it is Pending it has not been
\* picked up yet).
C11_NoHandlerNeverRunning ==
    \A t \in TaskIds :
        (tasks[t].status # "absent" /\ tasks[t].task_type \notin Registered)
            => /\ tasks[t].status \in {"pending", "failed"}
               /\ tasks[t].status = "pending" => tasks[t].attempts = 0

\* the edges of the task state machine
LegalEdges ==
    {<<"pending", "running">>, <<"running", "completed">>,
     <<"running", "failed">>, <<"running", "pending">>}

\* C12: every change of a task's status made by the scheduler and the task
\* store is one of Pending->Running (claim), Running->Completed,
\* Running->Failed or Running->Pending (retry); once a task is Completed or
\* Failed its status never changes again. (The insertion of a row is not a
\* change of a task's status.)
C12_LegalTransitions ==
    [][\A t \in TaskIds :
          /\ (tasks[t].status # "absent" /\ tasks'[t].status # tasks[t].status)
                => <<tasks[t].status, tasks'[t].status>> \in LegalEdges
          /\ tasks[t].status \in {"completed", "failed"}
                => tasks'[t].status = tasks[t].status]_vars

\* a task that was retried and claimed again is Completed, and the other
\* scheduler instance has run a handler for it as well
C12_Witness ==
    \E t \in TaskIds :
        /\ tasks[t].status = "completed"
        /\ tasks[t].claims >= 2
        /\ tasks[t].runs > tasks[t].claims

\* C13: in every reachable state, a task with status Failed has
\* attempts <= max_attempts, for every max_attempts value a task can be
\* created with.
C13_FailedWithinLimit ==
    \A t \in TaskIds :
        tasks[t].status = "failed" => tasks[t].attempts <= tasks[t].max_attempts

\* C14: when the claim compare-and-set of a polled task does not take effect
\* because the task is no longer Pending, the scheduler skips the task: it
\* runs no handler for it, so each Pending->Running claim leads to at most
\* one handler execution.
C14_OneExecutionPerClaim ==
    \A t \in TaskIds : tasks[t].runs <= tasks[t].claims

(***************************************************************************)
(* Further properties of process_sync                                      *)
(***************************************************************************)

\* the delta of response resp holds the server's copy of the entity that
\* conflict cf names, at least as recent as the copy the edit lost against
CopyInDelta(resp, cf) ==
    IF cf.entity_type = "reading_state"
    THEN \E r \in resp.reading_states :
            r.book_id = cf.entity_id /\ r.updated_at >= cf.server_updated_at
    ELSE \E r \in resp.annotations :
            r.id = cf.entity_id /\ r.updated_at >= cf.server_updated_at

\* C15: whenever process_sync rejects an edit with a ServerWins conflict, the
\* server's winning copy of that entity is contained in the delta
\* (reading_states or annotations) of the same response.
C15_WinningCopyInDelta ==
    \A c \in Calls :
        call[c].pc = "done" =>
            \A i \in 1..Len(call[c].resp.conflicts) :
                CopyInDelta(call[c].resp, call[c].resp.conflicts[i])

\* C15 as amended: whenever process_sync rejects an edit with a ServerWins
\* conflict and the server's winning copy has an updated_at strictly later
\* than the last_sync_at of the request, that copy is contained in the delta
\* of the same response.
C15_WinningCopyAfterCursor ==
    \A c \in Calls :
        call[c].pc = "done" =>
            \A i \in 1..Len(call[c].resp.conflicts) :
                call[c].resp.conflicts[i].server_updated_at > call[c].since
                    => CopyInDelta(call[c].resp, call[c].resp.conflicts[i])

\* a device that has synced before gets a reading-state edit rejected against a
\* row written after its cursor, and the response carries that row
C15_Witness ==
    \E c \in Calls :
        /\ call[c].pc = "done"
        /\ call[c].since > 0
        /\ \E i \in 1..Len(call[c].resp.conflicts) :
              /\ call[c].resp.conflicts[i].entity_type = "reading_state"
              /\ call[c].resp.conflicts[i].server_updated_at > call[c].since
              /\ CopyInDelta(call[c].resp, call[c].resp.conflicts[i])

\* call c applies the reading-state edit it is at in this step
AppliesRsEdit(c) ==
    /\ call[c].pc = "rs_apply"
    /\ call'[c].writes = call[c].writes + 1

\* C16: when process_sync applies a reading-state edit (no server row exists,
\* or the edit's updated_at is strictly later than the server row's), the
\* stored row afterwards is the client edit: it has the edit's location and
\* an updated_at equal to the edit's updated_at, and no conflict is emitted
\* for it.
C16_AppliedEditStored ==
    [][\A c \in Calls :
          AppliesRsEdit(c) =>
              LET e == call[c].rsEdits[call[c].i]
                  row == rs'[<<Owner(call[c].device), e.book_id>>]
              IN  /\ row.present
                  /\ row.location = e.location
                  /\ row.updated_at = e.updated_at
                  /\ call'[c].conflicts = call[c].conflicts]_vars

\* C17: for a reading-state or annotation edit whose updated_at equals the
\* stored server row's updated_at, process_sync leaves the server row
\* unchanged and emits no conflict for it.
C17_EqualIsNoOp ==
    [][\A c \in Calls :
          /\ (/\ call[c].pc = "rs_apply"
              /\ call'[c].pc # "rs_apply"
              /\ call[c].srvRs.present
              /\ call[c].rsEdits[call[c].i].updated_at = call[c].srvRs.updated_at)
                => /\ rs' = rs
                   /\ call'[c].conflicts = call[c].conflicts
          /\ (/\ call[c].pc = "an_apply"
              /\ call'[c].pc # "an_apply"
              /\ call[c].srvAn.present
              /\ call[c].anEdits[call[c].i].updated_at = call[c].srvAn.updated_at)
                => /\ an' = an
                   /\ call'[c].conflicts = call[c].conflicts]_vars

\* a call has merged its one reading-state edit, whose updated_at is that of
\* the stored row, without a write and without a conflict
C17_Witness ==
    \E c \in Calls :
        /\ call[c].pc = "query_rs"
        /\ Len(call[c].rsEdits) = 1
        /\ call[c].merged = 1
        /\ call[c].writes = 0
        /\ call[c].conflicts = <<>>
        /\ LET e == call[c].rsEdits[1]
               row == rs[<<Owner(call[c].device), e.book_id>>]
           IN  row.present /\ row.updated_at = e.updated_at

(***************************************************************************)
(* C18: after any sequence or interleaving of process_sync calls there is  *)
(* at most one ReadingState row per (user, book): rs holds one row per     *)
(* conflict target of the upsert; a row once stored stays stored, an       *)
(* edit for a key whose get_for_book found no row leaves a row carrying    *)
(* the edit and records no conflict, and every applied edit (row absent or *)
(* client newer) replaces the row of its own key and touches no other row. *)
(***************************************************************************)
C18_OneRowPerKey ==
    [][/\ \A key \in Users \X Books :
            rs[key].present => rs'[key].present
       /\ \A c \in Calls :
            (call[c].pc = "rs_apply" /\ call'[c].pc # "rs_apply") =>
                LET k == call[c]
                    e == k.rsEdits[k.i]
                    key == <<Owner(k.device), e.book_id>>
                IN  /\ \A o \in (Users \X Books) \ {key} : rs'[o] = rs[o]
                    /\ ~k.srvRs.present => call'[c].conflicts = k.conflicts
                    /\ (~k.srvRs.present \/ e.updated_at > k.srvRs.updated_at) =>
                          /\ rs'[key].present
                          /\ rs'[key].location = e.location
                          /\ rs'[key].device_id = k.device]_vars

\* two overlapping calls both found no row for the same key and both applied
\* their edit: the key has one row, and neither call recorded a conflict
C18_Witness ==
    \E key \in Users \X Books :
        /\ rs[key].present
        /\ \A c \in Calls :
              /\ call[c].pc \in {"query_rs", "query_an", "update_last_sync", "done"}
              /\ ~call[c].rsBefore[key].present
              /\ Owner(call[c].device) = key[1]
              /\ call[c].rsEdits[1].book_id = key[2]
              /\ call[c].writes = 1
              /\ call[c].conflicts = <<>>
        /\ call[1].rsEdits[1].location # call[2].rsEdits[1].location

(***************************************************************************)
(* C19: process_sync never removes an annotation row.  No step turns a     *)
(* stored row into an absent one, so the set of stored annotation ids      *)
(* never shrinks; the merge of an edit marked deleted that is newer than   *)
(* the server row leaves that row stored with deleted_at set; the merge of *)
(* an edit marked deleted for an id without a server row changes no row.   *)
(***************************************************************************)
C19_RowsNeverRemoved ==
    [][/\ \A a \in AnnIds : an[a].present => an'[a].present
       /\ \A c \in Calls :
            (call[c].pc = "an_apply" /\ call'[c].pc \notin {"an_apply", "failed"}) =>
                LET k == call[c]
                    e == k.anEdits[k.i]
                IN  /\ (/\ k.srvAn.present /\ e.deleted
                        /\ e.updated_at > k.srvAn.updated_at)
                          => /\ an'[e.id].present
                             /\ an'[e.id].deleted_at # 0
                    /\ (~k.srvAn.present /\ e.deleted) => an' = an]_vars

\* a device's newer deleted edit has turned a stored row into a tombstone
C19_Witness ==
    \E a \in AnnIds :
        /\ an[a].present
        /\ an[a].deleted_at # 0
        /\ an[a].deleted_by \in Devices
        /\ \E c \in Calls :
              /\ call[c].pc \in {"query_rs", "query_an", "update_last_sync", "done"}
              /\ call[c].anEdits # <<>>
              /\ call[c].anEdits[1].id = a
              /\ call[c].anEdits[1].deleted
              /\ call[c].anBefore[a].present
              /\ call[c].anBefore[a].deleted_at = 0
              /\ call[c].writes = 1

(***************************************************************************)
(* C20: within one poll batch the scheduler claims tasks in the order      *)
(* priority descending, then scheduled_at ascending.  Whenever a scheduler *)
(* claims the task at the head of its batch (mark_started turns it from    *)
(* pending to running), no task still waiting in that batch has a higher   *)
(* priority, or the same priority and an earlier scheduled_at.             *)
(***************************************************************************)
C20_ClaimOrder ==
    [][\A s \in Schedulers :
          (/\ sched[s].pc = "mark_started"
           /\ tasks'[Head(sched[s].batch)].claims
                 = tasks[Head(sched[s].batch)].claims + 1)
            => LET h == tasks[Head(sched[s].batch)]
               IN  \A y \in Range(Tail(sched[s].batch)) :
                      /\ tasks[y].priority <= h.priority
                      /\ tasks[y].priority = h.priority
                            => tasks[y].scheduled_at >= h.scheduled_at]_vars

\* the task just claimed was inserted later than a task still waiting in
\* the batch, and has the higher priority
C20_Witness ==
    \E s \in Schedulers :
        /\ sched[s].pc = "no_handler_get"
        /\ Len(sched[s].batch) = 2
        /\ LET h == tasks[sched[s].batch[1]]
               y == tasks[sched[s].batch[2]]
           IN  /\ h.status = "running"
               /\ h.claims = 1
               /\ y.status = "pending"
               /\ y.claims = 0
               /\ h.priority > y.priority
               /\ h.scheduled_at > y.scheduled_at

(***************************************************************************)
(* C21: every limiter unit the scheduler acquires is released once the     *)
(* work it was acquired for ends.  A unit is free, held by the poll loop   *)
(* for the task in hand, or held by a spawned execution; the loop holds a  *)
(* unit exactly while it is between acquire and continue/spawn; a step     *)
(* that takes a task out of running gives one unit back; and whenever the  *)
(* loop has no task in hand and no execution is in progress, all units are *)
(* available.                                                              *)
(***************************************************************************)
InHand == {"mark_started", "no_handler_get", "no_handler_update"}

Executing(s) == {p \in Permits : permits[s][p].stage \in {"handler", "mark_failed_update"}}

C21_UnitsReleased ==
    [][\A s \in Schedulers :
          /\ \A p \in Permits :
                permits'[s][p].stage \in {"free", "loop", "handler", "mark_failed_update"}
          /\ Cardinality({p \in Permits : permits'[s][p].stage = "loop"})
                = IF sched'[s].pc \in InHand THEN 1 ELSE 0
          /\ (sched[s].pc \in InHand /\ sched'[s].pc \notin InHand)
                => \E p \in LoopPermits(s) :
                      permits'[s][p].stage \in {"free", "handler"}
          /\ \A p \in Executing(s) :
                (permits'[s][p] # permits[s][p] /\ permits'[s][p].stage # "mark_failed_update")
                    => permits'[s][p] = FreePermit
          /\ \A t \in TaskIds :
                (s = "w1" /\ tasks[t].status = "running" /\ tasks'[t].status # "running")
                    => /\ \E p \in Permits : /\ permits[s][p].task = t
                                             /\ permits'[s][p] = FreePermit
                       /\ Cardinality({p \in Permits : permits'[s][p].stage = "free"})
                             = Cardinality(FreePermits(s)) + 1]_vars

\* after a timed-out execution and a task without a handler have both ended,
\* the loop is asleep and every unit is available
C21_Witness ==
    /\ sched["w1"].pc = "sleep"
    /\ FreePermits("w1") = Permits
    /\ \E t \in TaskIds : tasks[t].runs = 1 /\ tasks[t].status = "failed"
                            /\ tasks[t].error = "Task timed out"
    /\ \E t \in TaskIds : tasks[t].runs = 0 /\ tasks[t].claims >= 1
                            /\ tasks[t].error = "No handler for task type"

(***************************************************************************)
(* C22: run() never returns because of a failed poll.  The loop is always  *)
(* at one of its positions; a poll that returns Err changes no task and no *)
(* unit and puts the loop into the sleep of the Err arm with no batch; the *)
(* only step out of a sleep goes back to polling; and a poll that returns  *)
(* Ok takes every pending task that is due into its batch.                 *)
(***************************************************************************)
LoopPositions == {"poll", "sleep", "error_sleep", "acquire", "mark_started",
                  "no_handler_get", "no_handler_update"}

DuePending == {t \in TaskIds : tasks[t].status = "pending" /\ tasks[t].scheduled_at <= now}

C22_PollErrorSkipsCycle ==
    [][\A s \in Schedulers :
          /\ sched'[s].pc \in LoopPositions
          /\ (sched[s].pc = "poll" /\ sched'[s].pc = "error_sleep")
                => /\ sched'[s].batch = <<>>
                   /\ tasks' = tasks
                   /\ permits' = permits
          /\ (sched[s].pc \in {"sleep", "error_sleep"} /\ sched'[s] # sched[s])
                => sched'[s].pc = "poll"
          /\ (sched[s].pc = "poll" /\ sched'[s].pc \notin {"poll", "error_sleep"})
                => /\ Range(sched'[s].batch) = DuePending
                   /\ sched'[s].pc = IF DuePending = {} THEN "sleep" ELSE "acquire"]_vars

\* a poll has failed while a task was due: the loop sleeps in the Err arm
C22_Witness ==
    /\ sched["w1"].pc = "error_sleep"
    /\ \E t \in TaskIds : /\ tasks[t].status = "pending"
                          /\ tasks[t].scheduled_at <= now
                          /\ tasks[t].attempts = 0

(***************************************************************************)
(* C23: a handler error and a handler timeout are treated alike.  When an  *)
(* execution whose handler returned Err or timed out ends, its task is no  *)
(* longer running: it is pending when attempts < max_attempts and failed   *)
(* otherwise, and the task record holds the error text of that outcome.    *)
(***************************************************************************)
C23_FailureEndsAttempt ==
    [][\A s \in Schedulers, p \in Permits :
          (permits[s][p].stage = "mark_failed_update" /\ permits'[s][p] = FreePermit)
            => LET t == permits[s][p].task
               IN  /\ tasks'[t].status =
                         IF tasks[t].attempts < tasks[t].max_attempts
                         THEN "pending" ELSE "failed"
                   /\ tasks'[t].error = permits[s][p].error]_vars

(***************************************************************************)
(* C24: a task whose handler fails because the entity it refers to is      *)
(* missing is marked Failed after that attempt and is not retried, even    *)
(* when attempts < max_attempts: a task record that carries the error text *)
(* of the missing book has status failed.                                  *)
(***************************************************************************)
C24_NotFoundIsTerminal ==
    \A t \in TaskIds : tasks[t].error = "Book not found" => tasks[t].status = "failed"

(***************************************************************************)
(* C25: for every interleaving of two concurrent process_sync calls that   *)
(* carry edits for the same (user, book), an applied edit is never         *)
(* overwritten by a concurrently processed edit with an earlier updated_at:*)
(* once both calls have completed and both have applied their edit, the    *)
(* stored row is that of the edit with the later updated_at.               *)
(***************************************************************************)
C25_LaterEditSurvives ==
    \A c1 \in Calls, c2 \in Calls :
        (/\ c1 # c2
         /\ call[c1].pc = "done" /\ call[c2].pc = "done"
         /\ call[c1].writes = 1 /\ call[c2].writes = 1
         /\ call[c1].rsEdits[1].book_id = call[c2].rsEdits[1].book_id
         /\ call[c1].rsEdits[1].updated_at > call[c2].rsEdits[1].updated_at)
            => LET row == rs[<<Owner(call[c1].device), call[c1].rsEdits[1].book_id>>]
               IN  /\ row.location = call[c1].rsEdits[1].location
                   /\ row.device_id = call[c1].device

(***************************************************************************)
(* C26: process_sync called for user U never changes, tombstones or        *)
(* returns a ReadingState or Annotation owned by a different user,         *)
(* whatever book ids and annotation ids the request names: no step of a    *)
(* call for U changes a row of another user, and the delta of the call     *)
(* holds rows of U only.                                                   *)
(***************************************************************************)
C26_OtherUsersUntouched ==
    [][\A c \in Calls :
          (call[c].pc # "idle" /\ call'[c] # call[c]) =>
              LET u == Owner(call[c].device)
              IN  /\ \A a \in AnnIds :
                        (an[a].present /\ an[a].user_id # u) => an'[a] = an[a]
                  /\ \A key \in Users \X Books : key[1] # u => rs'[key] = rs[key]
                  /\ \A x \in call'[c].delta_an : an[x.id].user_id = u]_vars

(***************************************************************************)
(* C27: a task has status Running only while a scheduler execution that    *)
(* holds a limiter unit is working on it: every running task is the task   *)
(* of a unit that is not free, also after a mark_completed or mark_failed  *)
(* store call returned an error.                                           *)
(***************************************************************************)
C27_RunningHasExecution ==
    \A t \in TaskIds :
        tasks[t].status = "running"
            => \E s \in Schedulers, p \in Permits :
                  /\ permits[s][p].stage # "free"
                  /\ permits[s][p].task = t

(***************************************************************************)
(* C28: with limiter capacity at least 1, max_attempts at least 1,         *)
(* handlers that either return or time out, store calls that succeed and a *)
(* fairly scheduled poll loop, every Pending task whose scheduled_at has    *)
(* elapsed eventually reaches Completed or Failed (finitely many tasks are *)
(* created).                                                               *)
(***************************************************************************)
C28_DueTaskEnds ==
    \A t \in TaskIds :
        (tasks[t].status = "pending" /\ tasks[t].scheduled_at <= now)
            ~> (tasks[t].status \in {"completed", "failed"})

\* a task has failed once, was picked up again and has completed, and a
\* task without a handler has used up its attempts and is failed
C28_Witness ==
    /\ \E t \in TaskIds : /\ tasks[t].status = "completed"
                          /\ tasks[t].attempts = 2
                          /\ tasks[t].error \in HandlerErrors
    /\ \E t \in TaskIds : /\ tasks[t].status = "failed"
                          /\ tasks[t].task_type \notin Registered
                          /\ tasks[t].attempts = tasks[t].max_attempts

(***************************************************************************)
(* C29: a device's stored last_sync_at never decreases: every step leaves  *)
(* it at a value at least as large as before, also when two sync calls of  *)
(* the same device overlap and complete in the opposite order to the one   *)
(* they started in.                                                        *)
(***************************************************************************)
C29_CursorNeverDecreases ==
    [][\A d \in Devices : last_sync_at'[d] >= last_sync_at[d]]_vars

TypeOK == now \in 0..MaxTime

====
